---- MODULE Spec2Model ----
(***************************************************************************)
(* Model of the espanso hub frontend: the build-time package index         *)
(* service (app/services/packages.ts), the prerender configuration         *)
(* (react-router.config.ts), the home route (app/routes/home.tsx), the     *)
(* package detail route (app/routes/package.tsx), the search service       *)
(* (app/services/search.ts) and the search route (app/routes/search.tsx).  *)
(* An async function is one step per stretch of code between two awaits.   *)
(*                                                                         *)
(* Strings that the code only compares or copies are TLA+ strings.  A      *)
(* version string matching /^\d+\.\d+\.\d+$/ is the tuple of its three     *)
(* dot-separated components, each component the tuple of its decimal       *)
(* digits, so "1.10.0" is <<<<1>>, <<1, 0>>, <<0>>>>.  A URL path is the    *)
(* tuple of its segments: "/" is << >>, "/pkg-a/v/1.9.0" is                 *)
(* <<"pkg-a", "v", <<<<1>>, <<9>>, <<0>>>>>>.  A string that the code takes  *)
(* apart, lower-cases, sorts or joins (a tag, the value of the URL's t     *)
(* parameter, the text typed in the search input) is the tuple of its      *)
(* characters: "a,B" is <<"a", ",", "B">>.                                  *)
(***************************************************************************)
EXTENDS Naturals, Integers, Sequences, FiniteSets, TLC

VARIABLES
  cachedPackagesIndex,  \* module-level cache: Null or the validated index
  fetchPromise,         \* module-level promise: Null or a promise record
  fetchPc,              \* position of the fetching async closure
  response,             \* what the network answered: Null or a response
  requests,             \* number of fetch(PACKAGE_INDEX_URL) calls started
  calls,                \* the calls made to the service, oldest first
  navigation,           \* the route loader the router waits for: Null if none
  location,             \* the path the browser is at: Null before any visit
  loaderData,           \* what the route's loader produced for it
  installBox,           \* the install command the page shows: Null if none
  searchParams,         \* the URL's query on the search page: Null elsewhere
  textQuery,            \* the Search component's text state: Null elsewhere
  searchView,           \* what the Search component rendered: Null elsewhere
  fuseHits              \* what Fuse answers for the loaded package list

vars == <<cachedPackagesIndex, fetchPromise, fetchPc, response, requests,
          calls, navigation, location, loaderData, installBox,
          searchParams, textQuery, searchView, fuseHits>>

buildVars == <<cachedPackagesIndex, fetchPromise, fetchPc, response,
               requests, calls>>

searchVars == <<searchParams, textQuery, searchView, fuseHits>>

siteVars == <<navigation, location, loaderData, installBox, searchVars>>

----------------------------------------------------------------------------
(* Bounds of the model *)

\* longest package list of a served document in the build specification
MaxDocLen == 2

\* most calls made to the service in one build process
MaxCalls == 2

\* longest package list of the index in the service specification
MaxIndexLen == 4

\* longest package list of the index in the site specification
MaxPageIndexLen == 3

----------------------------------------------------------------------------
(* Values *)

Null == [null |-> TRUE]

\* the version parameter of the route /:packageName (no version given)
NoVersion == << >>

DummyPackageName == "dummy-package"

Names == {"pkg-a", "pkg-b", DummyPackageName}

\* "1.9.0" and "1.10.0": numeric order and plain string order disagree
Versions == { <<<<1>>, <<9>>, <<0>>>>, <<<<1>>, <<1, 0>>, <<0>>>> }

\* "1.9": not a semver string
MalformedVersion == <<<<1>>, <<9>>>>

\* a version that no served document carries ("2.0.0")
AbsentVersion == <<<<2>>, <<0>>, <<0>>>>

\* the tag list ["emoji"]
SomeTags == << <<"e", "m", "o", "j", "i">> >>

\* packages as they appear in the served JSON document
RawPackages ==
  [name : Names, version : Versions, tags : {SomeTags}]
    \cup { [name |-> "pkg-a", version |-> MalformedVersion, tags |-> SomeTags],
           [name |-> "pkg-a", version |-> CHOOSE v \in Versions : TRUE,
            tags |-> << >>] }

RECURSIVE SeqsUpTo(_, _)
SeqsUpTo(S, n) ==
  IF n = 0 THEN { << >> }
  ELSE LET shorter == SeqsUpTo(S, n - 1)
       IN  shorter \cup { Append(s, x) : s \in { t \in shorter : Len(t) = n - 1 },
                                          x \in S }

\* the JSON documents the index URL may serve; the last one lacks last_update
Documents(maxLen) ==
  { [last_update |-> 1, packages |-> ps] : ps \in SeqsUpTo(RawPackages, maxLen) }
    \cup { [packages |-> << >>] }

\* a response body that is not JSON at all
NotJson == [notJson |-> TRUE]

----------------------------------------------------------------------------
(* Schema validation (model/packages: PackagesIndexSchema) *)

IsDigits(c) == Len(c) >= 1 /\ \A i \in 1..Len(c) : c[i] \in 0..9

\* v.regex(/^\d+\.\d+\.\d+$/)
PackageVersionSchema(version) ==
  Len(version) = 3 /\ \A i \in 1..3 : IsDigits(version[i])

\* v.object({... version: PackageVersionSchema, tags: minLength(1) ...})
RawPackageSchema(raw) ==
  /\ PackageVersionSchema(raw.version)
  /\ Len(raw.tags) >= 1

\* v.transform: the validated package carries id = `${name}-${version}`
PackageSchemaOutput(raw) ==
  [name |-> raw.name, version |-> raw.version, tags |-> raw.tags,
   id |-> <<raw.name, "-", raw.version>>]

\* v.safeParse(PackagesIndexSchema, json).success
PackagesIndexSchema(json) ==
  /\ "last_update" \in DOMAIN json
  /\ "packages" \in DOMAIN json
  /\ json.last_update \in Nat
  /\ \A i \in 1..Len(json.packages) : RawPackageSchema(json.packages[i])

\* v.safeParse(PackagesIndexSchema, json).output
PackagesIndexOutput(json) ==
  [last_update |-> json.last_update,
   packages |-> [i \in 1..Len(json.packages) |->
                   PackageSchemaOutput(json.packages[i])]]

----------------------------------------------------------------------------
(* Version comparison: String.prototype.localeCompare *)

RECURSIVE NumericValue(_)
\* the number a run of decimal digits denotes (leading zeros do not count)
NumericValue(digits) ==
  IF Len(digits) = 0 THEN 0
  ELSE 10 * NumericValue(SubSeq(digits, 1, Len(digits) - 1)) + digits[Len(digits)]

Sign(a, b) == IF a < b THEN -1 ELSE IF a > b THEN 1 ELSE 0

\* the characters of a version string as collation keys: "." sorts before
\* every digit
VersionChars(version) ==
  LET withDots == [i \in 1..Len(version) |->
                     IF i = 1 THEN version[i] ELSE <<-1>> \o version[i]]
      RECURSIVE Flatten(_)
      Flatten(ss) == IF Len(ss) = 0 THEN << >> ELSE Head(ss) \o Flatten(Tail(ss))
  IN  Flatten(withDots)

RECURSIVE CompareSeq(_, _)
\* lexicographic comparison of two sequences of numbers
CompareSeq(a, b) ==
  IF Len(a) = 0 /\ Len(b) = 0 THEN 0
  ELSE IF Len(a) = 0 THEN -1
  ELSE IF Len(b) = 0 THEN 1
  ELSE IF Head(a) # Head(b) THEN Sign(Head(a), Head(b))
  ELSE CompareSeq(Tail(a), Tail(b))

\* a.localeCompare(b): character by character, so "1.10.0" < "1.9.0"
LocaleComparePlain(a, b) == CompareSeq(VersionChars(a), VersionChars(b))

\* a.localeCompare(b, undefined, { numeric: true }) on semver strings: each
\* run of digits compares by its numeric value, so "1.9.0" < "1.10.0"
LocaleCompareNumeric(a, b) ==
  CompareSeq([i \in 1..Len(a) |-> NumericValue(a[i])],
             [i \in 1..Len(b) |-> NumericValue(b[i])])

\* variant: the { numeric: true } option is left out
compareVersionsPlain(a, b) == LocaleComparePlain(b, a)

\* the comparator both version sorts pass to Array.prototype.sort:
\* (a, b) => b.localeCompare(a, undefined, { numeric: true }), descending
compareVersions(a, b) == LocaleCompareNumeric(b, a)

RECURSIVE InsertSorted(_, _, _)
\* index x placed after every index it does not precede: insertion keeps
\* the order of elements that compare equal
InsertSorted(sorted, x, versions) ==
  IF Len(sorted) = 0 THEN <<x>>
  ELSE IF compareVersions(versions[x], versions[Head(sorted)]) < 0
       THEN <<x>> \o sorted
  ELSE <<Head(sorted)>> \o InsertSorted(Tail(sorted), x, versions)

RECURSIVE SortOrder(_, _)
\* Array.prototype.sort is stable: the order in which it arranges the first
\* n positions of versions, as a sequence of positions
SortOrder(versions, n) ==
  IF n = 0 THEN << >>
  ELSE InsertSorted(SortOrder(versions, n - 1), n, versions)

RECURSIVE Dedupe(_)
\* Array.from(new Set(seq)): each value once, in order of first occurrence
Dedupe(seq) ==
  IF Len(seq) = 0 THEN << >>
  ELSE LET front == Dedupe(SubSeq(seq, 1, Len(seq) - 1))
           last  == seq[Len(seq)]
       IN  IF \E i \in 1..Len(front) : front[i] = last
           THEN front ELSE Append(front, last)

----------------------------------------------------------------------------
(* app/services/packages.ts: what each accessor computes from the index *)

\* variant: the filter on the package name is left out
keepAllPackages(output) == output

\* the success branch of fetchPackagesIndex: the parsed index without the
\* packages named "dummy-package"
filterDummyPackages(output) ==
  [last_update |-> output.last_update,
   packages |-> SelectSeq(output.packages,
                          LAMBDA pkg : pkg.name # DummyPackageName)]

\* variant: the names are returned without passing through a Set
getUniquePackageNamesKeepingDuplicates(index) ==
  [i \in 1..Len(index.packages) |-> index.packages[i].name]

\* Array.from(new Set(index.packages.map(pkg => pkg.name)))
getUniquePackageNames(index) ==
  Dedupe([i \in 1..Len(index.packages) |-> index.packages[i].name])

\* variant: the version sort is left out and the first entry of the name
\* is returned
getPackageByNameUnsorted(index, packageName) ==
  LET packageVersions ==
        SelectSeq(index.packages, LAMBDA pkg : pkg.name = packageName)
  IN  IF Len(packageVersions) = 0 THEN Null
      ELSE packageVersions[1]

getPackageByName(index, packageName) ==
  LET packageVersions ==
        SelectSeq(index.packages, LAMBDA pkg : pkg.name = packageName)
      sorted ==
        SortOrder([i \in 1..Len(packageVersions) |-> packageVersions[i].version],
                  Len(packageVersions))
  IN  IF Len(packageVersions) = 0 THEN Null
      ELSE packageVersions[sorted[1]]

\* index.packages.find(...) || null
getPackageByNameAndVersion(index, name, version) ==
  LET found == SelectSeq(index.packages,
                         LAMBDA p : p.name = name /\ p.version = version)
  IN  IF Len(found) = 0 THEN Null ELSE found[1]

\* variant: the sorted versions are returned as they are
getVersionsForPackageKeepingDuplicates(index, name) ==
  LET matching == SelectSeq(index.packages, LAMBDA p : p.name = name)
      versions == [i \in 1..Len(matching) |-> matching[i].version]
      sorted   == SortOrder(versions, Len(versions))
  IN  [i \in 1..Len(versions) |-> versions[sorted[i]]]

getVersionsForPackage(index, name) ==
  LET matching == SelectSeq(index.packages, LAMBDA p : p.name = name)
      versions == [i \in 1..Len(matching) |-> matching[i].version]
      sorted   == SortOrder(versions, Len(versions))
  IN  Dedupe([i \in 1..Len(versions) |-> versions[sorted[i]]])

\* `/${p.name}/v/${p.version}` for every entry
getAllPackageVersionPaths(index) ==
  [i \in 1..Len(index.packages) |->
     <<index.packages[i].name, "v", index.packages[i].version>>]

----------------------------------------------------------------------------
(* react-router.config.ts: the prerender path list *)

\* the argument of the two slice(0, 3) calls
PrerenderSlice == 3

\* Array.prototype.slice(0, n)
Slice(seq, n) == SubSeq(seq, 1, IF Len(seq) < n THEN Len(seq) ELSE n)

\* the path list of the configuration in force: "/", "/search", the first
\* three package names and the first three versioned paths
prerender(packageNames, versionPaths) ==
  << << >>, <<"search">> >>
    \o [i \in 1..Len(Slice(packageNames, PrerenderSlice)) |-> <<packageNames[i]>>]
    \o Slice(versionPaths, PrerenderSlice)

\* the path list of the earlier configuration: "/", every package name and
\* every versioned path
prerenderAllPackages(packageNames, versionPaths) ==
  << << >> >>
    \o [i \in 1..Len(packageNames) |-> <<packageNames[i]>>]
    \o versionPaths

----------------------------------------------------------------------------
(* The build process: calls to the service and the one fetch they share *)

Pending == [state |-> "pending"]
Fulfilled(value) == [state |-> "fulfilled", value |-> value]
Rejected(reason) == [state |-> "rejected", reason |-> reason]

\* fetch() itself failed: the index URL is unreachable
NetworkError == [networkError |-> TRUE]

Responses ==
  {NetworkError}
    \cup { [ok |-> FALSE, status |-> 404, body |-> NotJson] }
    \cup { [ok |-> TRUE, status |-> 200, body |-> b] :
             b \in {NotJson} \cup Documents(MaxDocLen) }

\* the names the build looks up: one that documents may carry, and the
\* dummy package's
LookupNames == {"pkg-a", DummyPackageName}

\* the operations a build makes on the service
CallOps ==
  { [op |-> o, name |-> "", version |-> NoVersion] :
      o \in {"fetchPackagesIndex", "getPackagesIndex", "getUniquePackageNames",
             "prerender"} }
    \cup { [op |-> "getPackageByName", name |-> n, version |-> NoVersion] :
             n \in LookupNames }

\* what a call of fetchPackagesIndex finds in fetchPromise on entry
FetchFound == IF fetchPromise = Null THEN "none" ELSE fetchPromise.state

\* which of its three returns a call of fetchPackagesIndex takes
FetchPath ==
  IF cachedPackagesIndex # Null THEN "cache"
  ELSE IF fetchPromise # Null THEN "inflight"
  ELSE "new"

\* variant: a call that finds the fetch in flight is handed a promise of
\* its own that nothing settles
FetchHandsOutDetached ==
  IF cachedPackagesIndex # Null THEN Fulfilled(cachedPackagesIndex)
  ELSE IF fetchPromise = Null THEN [ref |-> "fetchPromise"]
  ELSE Pending

\* variant: the cached value is handed out whether or not it is there yet
FetchHandsOutCacheOnly == Fulfilled(cachedPackagesIndex)

\* the promise a call of fetchPackagesIndex hands to its caller: one already
\* fulfilled with the cached index, or the module's fetchPromise itself
FetchHandsOut ==
  IF cachedPackagesIndex # Null THEN Fulfilled(cachedPackagesIndex)
  ELSE [ref |-> "fetchPromise"]

\* variant: no in-flight guard, every call without a cached index fetches
fetchPackagesIndexUnguarded ==
  IF cachedPackagesIndex = Null
  THEN /\ fetchPromise' = Pending
       /\ fetchPc' = "awaitFetch"
       /\ requests' = requests + 1
  ELSE UNCHANGED <<fetchPromise, fetchPc, requests>>

\* variant: a rejected promise is dropped and the fetch is tried again
fetchPackagesIndexRetrying ==
  IF cachedPackagesIndex = Null
     /\ (fetchPromise = Null \/ fetchPromise.state = "rejected")
  THEN /\ fetchPromise' = Pending
       /\ fetchPc' = "awaitFetch"
       /\ requests' = requests + 1
  ELSE UNCHANGED <<fetchPromise, fetchPc, requests>>

\* variant: the cached index is not looked at and a settled promise is
\* dropped, so a call after the fetch has finished fetches again
fetchPackagesIndexWithoutCache ==
  IF fetchPromise = Null \/ fetchPromise.state # "pending"
  THEN /\ fetchPromise' = Pending
       /\ fetchPc' = "awaitFetch"
       /\ requests' = requests + 1
  ELSE UNCHANGED <<fetchPromise, fetchPc, requests>>

\* the synchronous part of fetchPackagesIndex: only when there is neither a
\* cached index nor a promise is a request started and its promise stored
fetchPackagesIndex ==
  IF cachedPackagesIndex = Null /\ fetchPromise = Null
  THEN /\ fetchPromise' = Pending
       /\ fetchPc' = "awaitFetch"
       /\ requests' = requests + 1
  ELSE UNCHANGED <<fetchPromise, fetchPc, requests>>

\* the promise a pending call is waiting for, as it is now
Awaited(c) ==
  IF c.awaits = [ref |-> "fetchPromise"] THEN fetchPromise ELSE c.awaits

\* what a call returns once its (last) getPackagesIndex has produced index
ReturnValue(c, index) ==
  CASE c.op = "fetchPackagesIndex"    -> index
    [] c.op = "getPackagesIndex"      -> index
    [] c.op = "getUniquePackageNames" -> getUniquePackageNames(index)
    [] c.op = "getPackageByName"      -> getPackageByName(index, c.name)
    [] c.op = "getPackageByNameAndVersion" ->
         getPackageByNameAndVersion(index, c.name, c.version)
    [] c.op = "getVersionsForPackage" -> getVersionsForPackage(index, c.name)
    [] c.op = "getAllPackageVersionPaths" -> getAllPackageVersionPaths(index)
    [] c.op = "prerender"             ->
         prerender(c.packageNames, getAllPackageVersionPaths(index))

\* a caller enters the service: every operation starts by awaiting
\* getPackagesIndex(), which awaits fetchPackagesIndex()
Call(o) ==
  /\ Len(calls) < MaxCalls
  /\ fetchPackagesIndex
  /\ calls' = Append(calls,
       [op |-> o.op, name |-> o.name, version |-> o.version, pc |-> "index",
        found |-> FetchFound,
        path |-> FetchPath, awaits |-> FetchHandsOut, state |-> "pending",
        result |-> Null, packageNames |-> << >>])
  /\ UNCHANGED <<cachedPackagesIndex, response, siteVars>>

\* variant: the version sort of getPackageByName works on the index's own
\* list instead of a filtered copy
ResumeSortingInPlace(i) ==
  LET c == calls[i]
      p == Awaited(c)
  IN  /\ c.state = "pending"
      /\ p # Null
      /\ p.state = "fulfilled"
      /\ c.op # "prerender"
      /\ calls' = [calls EXCEPT ![i] =
            [c EXCEPT !.state = "fulfilled",
                      !.result = [value |-> ReturnValue(c, p.value)]]]
      /\ cachedPackagesIndex' =
           IF c.op # "getPackageByName" THEN cachedPackagesIndex
           ELSE LET packages == p.value.packages
                    sorted == SortOrder([k \in 1..Len(packages) |->
                                           packages[k].version], Len(packages))
                IN  [p.value EXCEPT
                       !.packages = [k \in 1..Len(packages) |->
                                       packages[sorted[k]]]]
      /\ UNCHANGED <<fetchPromise, fetchPc, requests, response, siteVars>>

\* variant: getPackagesIndex catches the error, logs it and does not rethrow
ResumeSwallowingError(i) ==
  LET c == calls[i]
      p == Awaited(c)
  IN  /\ c.state = "pending"
      /\ p # Null
      /\ p.state # "pending"
      /\ calls' = [calls EXCEPT ![i] =
            [c EXCEPT !.state = "fulfilled",
                      !.result = [value |-> IF p.state = "rejected" THEN Null
                                            ELSE ReturnValue(c, p.value)]]]
      /\ UNCHANGED <<fetchPromise, fetchPc, requests>>
      /\ UNCHANGED <<cachedPackagesIndex, response, siteVars>>

\* the awaited promise has settled and the caller's continuation runs: a
\* rejection propagates (getPackagesIndex logs and rethrows), a value is
\* worked on; prerender goes on to its second await
Resume(i) ==
  LET c == calls[i]
      p == Awaited(c)
  IN  /\ c.state = "pending"
      /\ p # Null
      /\ p.state # "pending"
      /\ IF p.state = "rejected"
         THEN /\ calls' = [calls EXCEPT ![i] =
                   [c EXCEPT !.state = "rejected", !.result = [error |-> p.reason]]]
              /\ UNCHANGED <<fetchPromise, fetchPc, requests>>
         ELSE IF c.op = "prerender" /\ c.pc = "index"
         THEN /\ fetchPackagesIndex
              /\ calls' = [calls EXCEPT ![i] =
                   [c EXCEPT !.pc = "versionPaths",
                             !.packageNames = getUniquePackageNames(p.value),
                             !.found = FetchFound,
                             !.path = FetchPath,
                             !.awaits = FetchHandsOut]]
         ELSE /\ calls' = [calls EXCEPT ![i] =
                   [c EXCEPT !.state = "fulfilled",
                             !.result = [value |-> ReturnValue(c, p.value)]]]
              /\ UNCHANGED <<fetchPromise, fetchPc, requests>>
      /\ UNCHANGED <<cachedPackagesIndex, response, siteVars>>

\* await fetch(PACKAGE_INDEX_URL) settles with r: the request failed, or
\* answered with a status that is not OK (the closure throws), or answered
\* OK (the closure goes on to await response.json())
FetchRespondsWith(r) ==
  /\ fetchPc = "awaitFetch"
  /\ response' = r
  /\ IF r = NetworkError
     THEN /\ fetchPromise' = Rejected([error |-> "fetch failed"])
          /\ fetchPc' = "done"
     ELSE IF ~r.ok
     THEN /\ fetchPromise' =
               Rejected([error |-> "Failed to fetch package index",
                         status |-> r.status])
          /\ fetchPc' = "done"
     ELSE /\ fetchPc' = "awaitJson"
          /\ UNCHANGED fetchPromise
  /\ UNCHANGED <<cachedPackagesIndex, requests, calls, siteVars>>

FetchResponds == \E r \in Responses : FetchRespondsWith(r)

\* await response.json() settles and the closure runs to its end: the body
\* is parsed, validated as a whole, filtered and cached, or the closure
\* throws and nothing is cached
FetchCompletes ==
  /\ fetchPc = "awaitJson"
  /\ LET json == response.body
     IN  IF json = NotJson
         THEN /\ fetchPromise' = Rejected([error |-> "SyntaxError"])
              /\ UNCHANGED cachedPackagesIndex
         ELSE IF PackagesIndexSchema(json)
         THEN LET result == filterDummyPackages(PackagesIndexOutput(json))
              IN  /\ cachedPackagesIndex' = result
                  /\ fetchPromise' = Fulfilled(result)
         ELSE /\ fetchPromise' =
                   Rejected([error |-> "Package index validation failed"])
              /\ UNCHANGED cachedPackagesIndex
  /\ fetchPc' = "done"
  /\ UNCHANGED <<response, requests, calls, siteVars>>

Init ==
  /\ cachedPackagesIndex = Null
  /\ fetchPromise = Null
  /\ fetchPc = "idle"
  /\ response = Null
  /\ requests = 0
  /\ calls = << >>
  /\ navigation = Null
  /\ location = Null
  /\ loaderData = Null
  /\ installBox = Null
  /\ searchParams = Null
  /\ textQuery = Null
  /\ searchView = Null
  /\ fuseHits = << >>

Next ==
  \/ \E o \in CallOps : Call(o)
  \/ \E i \in 1..Len(calls) : Resume(i)
  \/ FetchResponds
  \/ FetchCompletes

Spec == Init /\ [][Next]_vars

----------------------------------------------------------------------------
(* Strings the search code takes apart: String.prototype.toLowerCase,     *)
(* trim, split, Array.prototype.join and the default Array.prototype.sort *)

\* the UTF-16 code unit of each character the model's strings are made of
CodeUnit(c) ==
  CASE c = " " -> 32
    [] c = "," -> 44
    [] c = "A" -> 65
    [] c = "B" -> 66
    [] c = "a" -> 97
    [] c = "b" -> 98
    [] c = "e" -> 101
    [] c = "i" -> 105
    [] c = "j" -> 106
    [] c = "m" -> 109
    [] c = "o" -> 111

\* an upper-case letter becomes its lower-case letter, every other
\* character stays
LowerChar(c) ==
  IF c = "A" THEN "a" ELSE IF c = "B" THEN "b" ELSE c

\* s.toLowerCase()
toLowerCase(s) == [i \in 1..Len(s) |-> LowerChar(s[i])]

RECURSIVE trimStart(_)
trimStart(s) ==
  IF Len(s) > 0 /\ Head(s) = " " THEN trimStart(Tail(s)) ELSE s

RECURSIVE trimEnd(_)
trimEnd(s) ==
  IF Len(s) > 0 /\ s[Len(s)] = " "
  THEN trimEnd(SubSeq(s, 1, Len(s) - 1)) ELSE s

\* s.trim()
trim(s) == trimEnd(trimStart(s))

RECURSIVE split(_)
\* s.split(","): the pieces between the commas, the empty ones included;
\* the empty string splits into one empty piece
split(s) ==
  IF \A i \in 1..Len(s) : s[i] # "," THEN <<s>>
  ELSE LET k == CHOOSE i \in 1..Len(s) :
                  s[i] = "," /\ \A j \in 1..(i - 1) : s[j] # ","
       IN  <<SubSeq(s, 1, k - 1)>> \o split(SubSeq(s, k + 1, Len(s)))

RECURSIVE join(_)
\* strings.join(",")
join(strings) ==
  IF Len(strings) = 0 THEN << >>
  ELSE IF Len(strings) = 1 THEN strings[1]
  ELSE strings[1] \o <<",">> \o join(Tail(strings))

\* the order of the default sort: strings compare code unit by code unit
compareCodeUnits(a, b) ==
  CompareSeq([i \in 1..Len(a) |-> CodeUnit(a[i])],
             [i \in 1..Len(b) |-> CodeUnit(b[i])])

RECURSIVE InsertString(_, _)
InsertString(sorted, s) ==
  IF Len(sorted) = 0 THEN <<s>>
  ELSE IF compareCodeUnits(s, Head(sorted)) < 0 THEN <<s>> \o sorted
  ELSE <<Head(sorted)>> \o InsertString(Tail(sorted), s)

RECURSIVE sort(_)
\* strings.sort() without a comparator
sort(strings) ==
  IF Len(strings) = 0 THEN << >>
  ELSE InsertString(sort(SubSeq(strings, 1, Len(strings) - 1)),
                    strings[Len(strings)])

\* array.includes(x)
includes(array, x) == \E i \in 1..Len(array) : array[i] = x

----------------------------------------------------------------------------
(* app/services/search.ts *)

\* fuse.search(query).map((result) => result.item) on the loaded package
\* list: Fuse answers with the packages it scores within the threshold,
\* best score first; which ones they are is the library's matter and is
\* held in fuseHits as positions of the list
FuseSearch(packages, query) ==
  [i \in 1..Len(fuseHits) |-> packages[fuseHits[i]]]

textSearch(packages, query) ==
  IF Len(query) = 0 \/ Len(trim(query)) = 0 THEN packages
  ELSE FuseSearch(packages, query)

\* variant: the tag lists are compared as they are written
filterByTagsCaseSensitive(packages, tags) ==
  IF Len(tags) = 0 THEN packages
  ELSE SelectSeq(packages,
                 LAMBDA pkg : \E k \in 1..Len(pkg.tags) :
                                includes(tags, pkg.tags[k]))

filterByTags(packages, tags) ==
  IF Len(tags) = 0 THEN packages
  ELSE LET lowerTags == [i \in 1..Len(tags) |-> toLowerCase(tags[i])]
       IN  SelectSeq(packages,
                     LAMBDA pkg : \E k \in 1..Len(pkg.tags) :
                                    includes(lowerTags, toLowerCase(pkg.tags[k])))

RECURSIVE LowerTagsOf(_)
\* the lower-cased tags in the order the two nested forEach loops meet them
LowerTagsOf(packages) ==
  IF Len(packages) = 0 THEN << >>
  ELSE [k \in 1..Len(Head(packages).tags) |->
          toLowerCase(Head(packages).tags[k])]
         \o LowerTagsOf(Tail(packages))

RECURSIVE InsertByCount(_, _)
\* entry e placed after every entry whose count is not smaller: the sort
\* keeps the Map's insertion order among equal counts
InsertByCount(sorted, e) ==
  IF Len(sorted) = 0 THEN <<e>>
  ELSE IF Head(sorted).count - e.count < 0 THEN <<e>> \o sorted
  ELSE <<Head(sorted)>> \o InsertByCount(Tail(sorted), e)

RECURSIVE SortByCount(_)
\* entries.sort((a, b) => b.count - a.count)
SortByCount(entries) ==
  IF Len(entries) = 0 THEN << >>
  ELSE InsertByCount(SortByCount(SubSeq(entries, 1, Len(entries) - 1)),
                     entries[Len(entries)])

countTags(packages) ==
  LET met  == LowerTagsOf(packages)
      keys == Dedupe(met)
  IN  SortByCount([i \in 1..Len(keys) |->
                     [tag |-> keys[i],
                      count |-> Cardinality({k \in 1..Len(met) : met[k] = keys[i]})]])

\* variant: the text query is not applied
applyFiltersTagsOnly(packages, query, selectedTags) ==
  filterByTags(packages, selectedTags)

applyFilters(packages, query, selectedTags) ==
  LET afterText == IF Len(query) > 0 /\ Len(trim(query)) # 0
                   THEN textSearch(packages, query) ELSE packages
  IN  IF Len(selectedTags) > 0 THEN filterByTags(afterText, selectedTags)
      ELSE afterText

----------------------------------------------------------------------------
(* app/routes/package.tsx: the package detail route *)

\* the routes /:packageName and /:packageName/v/:version
RouteParams(path) ==
  IF Len(path) = 1 THEN [packageName |-> path[1], version |-> NoVersion]
  ELSE [packageName |-> path[1], version |-> path[3]]

\* throw new Response(message, { status: 404 })
NotFound(message) == [status |-> 404, body |-> message]

\* variant: the version parameter is not looked at, the latest is loaded
loaderPackageIgnoringVersion(index, params) ==
  getPackageByName(index, params.packageName)

\* the loader's first await: the requested version when one is given, the
\* latest one otherwise
loaderPackage(index, params) ==
  IF params.version # NoVersion
  THEN getPackageByNameAndVersion(index, params.packageName, params.version)
  ELSE getPackageByName(index, params.packageName)

\* .with(null, ...): the 404 response the loader throws when there is none
loaderNotFound(params) ==
  NotFound(IF params.version # NoVersion THEN "Package version not found"
           ELSE "Package not found")

\* variant: only the route without a version parameter counts as latest
loaderReturnLatestOnlyUnversioned(p, versions, params) ==
  [package |-> p, versions |-> versions,
   isLatest |-> params.version = NoVersion]

\* .otherwise(...): what the loader returns for the package p once
\* getVersionsForPackage has answered with versions
loaderReturn(p, versions, params) ==
  [package |-> p,
   versions |-> versions,
   isLatest |-> \/ params.version = NoVersion
                \/ (Len(versions) > 0 /\ versions[1] = params.version)]

\* the loader run from its call to its end on one index
loader(index, params) ==
  LET pkg == loaderPackage(index, params)
  IN  IF pkg = Null THEN loaderNotFound(params)
      ELSE loaderReturn(pkg, getVersionsForPackage(index, params.packageName),
                        params)

\* what fetchPackageFiles(p.archive_url) resolves with in the later version
\* of the route; the function is outside the sources, its answer is not
\* looked into
ArchiveFiles == [archive |-> TRUE]

\* the error the later loader rejects with when fetchPackageFiles rejects
FilesError == [error |-> "fetchPackageFiles"]

\* { ...p, files }
packageWithFiles(p) ==
  [name |-> p.name, version |-> p.version, tags |-> p.tags, id |-> p.id,
   files |-> ArchiveFiles]

\* the command shown in the install box, as its words
installCommand(data) ==
  IF data.isLatest
  THEN <<"espanso", "install", data.package.name>>
  ELSE <<"espanso", "install", data.package.name,
         "--version", data.package.version>>

\* variant: every choice navigates to the versioned path
handleVersionChangeAlwaysVersioned(data, version) ==
  <<data.package.name, "v", version>>

\* the path the version selector navigates to
handleVersionChange(data, version) ==
  IF version = data.versions[1]
  THEN <<data.package.name>>
  ELSE <<data.package.name, "v", version>>

\* the names of the package detail paths a visitor opens: one that documents
\* may carry, and the dummy package's
VisitedNames == {"pkg-a", DummyPackageName}

\* the package detail paths a visitor may open
PackagePaths ==
  { <<n>> : n \in VisitedNames }
    \cup { <<n, "v", v>> : n \in VisitedNames,
                           v \in Versions \cup {AbsentVersion} }

IsData(data) == "package" \in DOMAIN data

IsNotFound(data) == "status" \in DOMAIN data

----------------------------------------------------------------------------
(* The site in the browser: the index is cached, the router calls the     *)
(* loader of the route a navigation leads to and renders the route when   *)
(* the loader has returned.  The page shown stays as it is while a loader *)
(* runs; a navigation started meanwhile supersedes the pending one, whose *)
(* loader no longer has an effect on the page.  The route table is the    *)
(* one of the plans: the index route, /search, /:packageName and           *)
(* /:packageName/v/:version; the table kept with the sources has the index *)
(* route and /:packageName only and is older than the loaders and pages    *)
(* modelled here, which read params.version and navigate to /search.       *)

HomePath == << >>

SearchPath == <<"search">>

\* the path matches /:packageName or /:packageName/v/:version and not the
\* route /search, which as a static segment ranks before a parameter
IsPackagePath(pathname) ==
  /\ pathname # SearchPath
  /\ \/ Len(pathname) = 1
     \/ Len(pathname) = 3 /\ pathname[2] = "v"

\* what PackageRoute renders in the install box for the loader's result; a
\* thrown response or error renders no package page
Render(data) ==
  IF IsData(data) THEN [command |-> installCommand(data)] ELSE Null

\* a navigation whose loader has been called and stands at its first
\* await; mounted tells whether the Search component shown stays mounted
\* through it, which is the case when the navigation changes the query of
\* the page shown
Loading(pathname, query, mounted) ==
  [pathname |-> pathname, query |-> query, pc |-> "index",
   pkg |-> Null, versions |-> << >>, mounted |-> mounted]

\* a navigation starts: the router calls the loader of the route, which
\* enters the service and stops at its first await
Navigate(pathname, query) ==
  /\ cachedPackagesIndex # Null
  /\ navigation' = Loading(pathname, query, FALSE)
  /\ UNCHANGED <<buildVars, location, loaderData, installBox, searchVars>>

\* the pending navigation ends: the router moves to its path and renders
\* the home route or the package route with what the loader produced
ShowPage(data) ==
  /\ location' = [pathname |-> navigation.pathname]
  /\ loaderData' = data
  /\ installBox' = Render(data)
  /\ searchParams' = Null
  /\ textQuery' = Null
  /\ searchView' = Null
  /\ navigation' = Null
  /\ UNCHANGED <<buildVars, fuseHits>>

\* a package detail path is opened
Visit(path) == Navigate(path, Null)

\* "/" is opened
OpenHome == Navigate(HomePath, Null)

\* a version is chosen in the selector of the page shown:
\* handleVersionChange calls navigate() with the path of the version
SelectVersion(version) ==
  /\ loaderData # Null
  /\ IsData(loaderData)
  /\ \E i \in 1..Len(loaderData.versions) : loaderData.versions[i] = version
  /\ Navigate(handleVersionChange(loaderData, version), Null)

\* the package loader goes on after its first await: it throws the 404
\* response when the accessor gave null, and calls getVersionsForPackage
\* otherwise
LoaderFindsPackage ==
  /\ navigation # Null
  /\ navigation.pc = "index"
  /\ IsPackagePath(navigation.pathname)
  /\ LET params == RouteParams(navigation.pathname)
         pkg == loaderPackage(cachedPackagesIndex, params)
     IN  IF pkg = Null
         THEN ShowPage(loaderNotFound(params))
         ELSE /\ navigation' = [navigation EXCEPT !.pc = "versions",
                                                  !.pkg = pkg]
              /\ UNCHANGED <<buildVars, location, loaderData, installBox,
                             searchVars>>

\* the loader of part_002:24-44 goes on after its second await and returns
LoaderReturns ==
  /\ navigation # Null
  /\ navigation.pc = "versions"
  /\ LET params == RouteParams(navigation.pathname)
         versions == getVersionsForPackage(cachedPackagesIndex,
                                           params.packageName)
     IN  ShowPage(loaderReturn(navigation.pkg, versions, params))

\* the loader of part_002:283-313 goes on after its second await and calls
\* fetchPackageFiles
LoaderFetchesFiles ==
  /\ navigation # Null
  /\ navigation.pc = "versions"
  /\ LET params == RouteParams(navigation.pathname)
         versions == getVersionsForPackage(cachedPackagesIndex,
                                           params.packageName)
     IN  navigation' = [navigation EXCEPT !.pc = "files",
                                          !.versions = versions]
  /\ UNCHANGED <<buildVars, location, loaderData, installBox, searchVars>>

\* fetchPackageFiles resolves and the later loader returns the package with
\* its files
FilesFetched ==
  /\ navigation # Null
  /\ navigation.pc = "files"
  /\ ShowPage(loaderReturn(packageWithFiles(navigation.pkg),
                           navigation.versions,
                           RouteParams(navigation.pathname)))

\* fetchPackageFiles rejects and the later loader rejects with its error
FilesFail ==
  /\ navigation # Null
  /\ navigation.pc = "files"
  /\ ShowPage(FilesError)

\* the home loader goes on after await getPackagesIndex() and returns the
\* index as packages
HomeLoaderReturns ==
  /\ navigation # Null
  /\ navigation.pc = "index"
  /\ navigation.pathname = HomePath
  /\ ShowPage([packages |-> cachedPackagesIndex])

\* the state of a process whose one fetch answered with json and passed
\* validation
Cached(json) ==
  /\ PackagesIndexSchema(json)
  /\ cachedPackagesIndex = filterDummyPackages(PackagesIndexOutput(json))
  /\ fetchPromise = Fulfilled(cachedPackagesIndex)
  /\ fetchPc = "done"
  /\ response = [ok |-> TRUE, status |-> 200, body |-> json]
  /\ requests = 1
  /\ calls = << >>
  /\ navigation = Null
  /\ location = Null
  /\ loaderData = Null
  /\ installBox = Null
  /\ searchParams = Null
  /\ textQuery = Null
  /\ searchView = Null

SiteInit ==
  \E json \in Documents(MaxPageIndexLen) :
    /\ Cached(json)
    /\ fuseHits = << >>

SiteNext ==
  \/ \E path \in PackagePaths : Visit(path)
  \/ OpenHome
  \/ \E version \in Versions : SelectVersion(version)
  \/ LoaderFindsPackage
  \/ LoaderReturns
  \/ LoaderFetchesFiles
  \/ FilesFetched
  \/ FilesFail
  \/ HomeLoaderReturns

SiteSpec == SiteInit /\ [][SiteNext]_vars

----------------------------------------------------------------------------
(* The service after the fetch: callers of the accessors and of prerender *)
(* find the index cached                                                  *)

\* the operations made on the service once the index is cached
ServiceOps ==
  { [op |-> o, name |-> "", version |-> NoVersion] :
      o \in {"prerender", "getUniquePackageNames",
             "getAllPackageVersionPaths"} }
    \cup { [op |-> o, name |-> "pkg-a", version |-> NoVersion] :
             o \in {"getPackageByName", "getVersionsForPackage"} }
    \cup { [op |-> "getPackageByNameAndVersion", name |-> "pkg-a",
            version |-> <<<<1>>, <<9>>, <<0>>>>] }

ServiceInit ==
  \E json \in Documents(MaxIndexLen) :
    /\ Cached(json)
    /\ fuseHits = << >>

ServiceNext ==
  \/ \E o \in ServiceOps : Call(o)
  \/ \E i \in 1..Len(calls) : Resume(i)

ServiceSpec == ServiceInit /\ [][ServiceNext]_vars

----------------------------------------------------------------------------
(* app/routes/search.tsx: the search route *)

\* longest package list of the index in the search specification
MaxSearchLen == 2

\* the argument of tagCounts.slice(0, 10): the most tag checkboxes shown
TagCheckboxSlice == 10

\* the tags of the served packages: "a", "B" and "b"
Tags == { <<"a">>, <<"B">>, <<"b">> }

\* the tag lists of the served packages: one tag, or two different tags
\* with the one of the smaller code unit first
TagLists ==
  { <<x>> : x \in Tags }
    \cup { tags \in Tags \X Tags : compareCodeUnits(tags[1], tags[2]) < 0 }

\* the package names of the search specification, by position in the index
SearchNames == <<"pkg-a", "pkg-b", "pkg-c">>

\* the documents the index URL serves in the search specification
SearchDocuments(maxLen) ==
  { [last_update |-> 1,
     packages |-> [i \in 1..Len(tagLists) |->
                     [name |-> SearchNames[i],
                      version |-> <<<<1>>, <<9>>, <<0>>>>,
                      tags |-> tagLists[i]]]] :
      tagLists \in SeqsUpTo(TagLists, maxLen) }

\* what Fuse may answer on a list of n packages: any of them, each at most
\* once, in any order
FuseAnswers(n) ==
  { hits \in SeqsUpTo(1..n, n) :
      \A i, j \in 1..Len(hits) : i # j => hits[i] # hits[j] }

\* the texts typed in the search input: "", " " and "e"
Queries == { << >>, <<" ">>, <<"e">> }

\* the values of the t parameter of the URLs opened by hand: none, "",
\* "B", "b,a" and ",b,,ab"
OpenedTagParams ==
  { Null, [value |-> << >>], [value |-> <<"B">>],
    [value |-> <<"b", ",", "a">>],
    [value |-> <<",", "b", ",", ",", "a", "b">>] }

\* the queries of the URLs opened by hand: each of the t parameters alone,
\* and another parameter alone or beside t=B
OpenedQueries ==
  { [t |-> t, other |-> Null] : t \in OpenedTagParams }
    \cup { [t |-> Null, other |-> [value |-> <<"e">>]],
           [t |-> [value |-> <<"B">>], other |-> [value |-> <<"e">>]] }

\* variant: the empty pieces of the t parameter are kept
selectedTagsKeepingEmpty(params) ==
  IF params.t = Null THEN << >> ELSE split(params.t.value)

\* searchParams.get("t")?.split(",").filter(Boolean) || []
selectedTagsOf(params) ==
  IF params.t = Null THEN << >>
  ELSE SelectSeq(split(params.t.value), LAMBDA piece : Len(piece) > 0)

\* what the Search component renders from the loaded packages, the URL's
\* query and its text state
SearchRender(packages, params, query) ==
  LET selectedTags == selectedTagsOf(params)
      tagCounts    == Slice(countTags(packages), TagCheckboxSlice)
  IN  [filteredPackages |-> applyFilters(packages, query, selectedTags),
       tagCheckboxes |->
         [i \in 1..Len(tagCounts) |->
            [tag |-> tagCounts[i].tag, count |-> tagCounts[i].count,
             checked |-> includes(selectedTags, tagCounts[i].tag)]],
       activeTags |-> selectedTags,
       hasActiveFilters |-> Len(trim(query)) # 0 \/ Len(selectedTags) > 0]

\* /search is opened, with or without parameters
OpenSearch(t, other) == Navigate(SearchPath, [t |-> t, other |-> other])

\* the search loader goes on after await getPackagesIndex() and returns the
\* packages of the index; the router moves to /search with the query of
\* the navigation and the Search component renders: with the text query it
\* holds when it stayed mounted, with useState("") when it mounts
SearchLoaderReturns ==
  /\ navigation # Null
  /\ navigation.pc = "index"
  /\ navigation.pathname = SearchPath
  /\ location' = [pathname |-> SearchPath]
  /\ loaderData' = [packages |-> cachedPackagesIndex.packages]
  /\ installBox' = Null
  /\ searchParams' = navigation.query
  /\ textQuery' = IF navigation.mounted THEN textQuery ELSE [value |-> << >>]
  /\ searchView' = SearchRender(cachedPackagesIndex.packages, searchParams',
                                textQuery'.value)
  /\ navigation' = Null
  /\ UNCHANGED <<buildVars, fuseHits>>

\* setSearchParams(init) of useSearchParams: a navigation to the page shown
\* with the query replaced; the URL changes when its loader has returned
setSearchParams(query) ==
  /\ cachedPackagesIndex # Null
  /\ navigation' = Loading(SearchPath, query, TRUE)

\* handleTagClick of the package page: navigate(`/search?t=${tag}`); the
\* tags of the model hold no character that a URL query treats specially
handleTagClick(tag) ==
  /\ loaderData # Null
  /\ IsData(loaderData)
  /\ includes(loaderData.package.tags, tag)
  /\ OpenSearch([value |-> tag], Null)

OnSearchPage == searchParams # Null

\* a tag checkbox is clicked: toggleTag computes the new tags from the
\* query of the URL shown and calls setSearchParams, which replaces the
\* whole query; the navigation supersedes a pending one
toggleTag(tag) ==
  /\ OnSearchPage
  /\ \E i \in 1..Len(searchView.tagCheckboxes) :
       searchView.tagCheckboxes[i].tag = tag
  /\ LET selectedTags == selectedTagsOf(searchParams)
         lowerTag == toLowerCase(tag)
         newTags  == IF includes(selectedTags, lowerTag)
                     THEN SelectSeq(selectedTags, LAMBDA t : t # lowerTag)
                     ELSE Append(selectedTags, lowerTag)
     IN  IF Len(newTags) > 0
         THEN setSearchParams([t |-> [value |-> join(sort(newTags))],
                               other |-> Null])
         ELSE setSearchParams([t |-> Null, other |-> Null])
  /\ UNCHANGED <<buildVars, location, loaderData, installBox, searchVars>>

\* variant: the text typed is also written to the URL's query
setTextQueryIntoUrl(value) ==
  /\ OnSearchPage
  /\ textQuery' = [value |-> value]
  /\ searchView' = SearchRender(loaderData.packages, searchParams, value)
  /\ setSearchParams([t |-> searchParams.t, other |-> [value |-> value]])
  /\ UNCHANGED <<buildVars, location, loaderData, installBox,
                 searchParams, fuseHits>>

\* the search input changes: onChange calls setTextQuery(e.target.value)
\* and the component renders again
setTextQuery(value) ==
  /\ OnSearchPage
  /\ textQuery' = [value |-> value]
  /\ searchView' = SearchRender(loaderData.packages, searchParams, value)
  /\ UNCHANGED <<buildVars, navigation, location, loaderData, installBox,
                 searchParams, fuseHits>>

\* variant: only the URL is cleared
clearAllFiltersKeepingText ==
  /\ OnSearchPage
  /\ searchView.hasActiveFilters
  /\ setSearchParams([t |-> Null, other |-> Null])
  /\ UNCHANGED <<buildVars, location, loaderData, installBox, searchVars>>

\* the "Clear All Filters" button, shown while a filter is active:
\* setTextQuery("") takes effect with the render that follows the handler,
\* setSearchParams({}) with the navigation it starts
clearAllFilters ==
  /\ OnSearchPage
  /\ searchView.hasActiveFilters
  /\ textQuery' = [value |-> << >>]
  /\ searchView' = SearchRender(loaderData.packages, searchParams, << >>)
  /\ setSearchParams([t |-> Null, other |-> Null])
  /\ UNCHANGED <<buildVars, location, loaderData, installBox,
                 searchParams, fuseHits>>

\* the package pages a visitor of the search specification may open
SearchPackagePaths == { <<SearchNames[i]>> : i \in 1..MaxSearchLen }

\* the state of a build process whose one fetch answered with json and
\* passed validation, and a Fuse behaviour for its package list
SearchInit ==
  \E json \in SearchDocuments(MaxSearchLen) :
    /\ Cached(json)
    /\ fuseHits \in FuseAnswers(Len(cachedPackagesIndex.packages))

SearchNext ==
  \/ \E query \in OpenedQueries : OpenSearch(query.t, query.other)
  \/ SearchLoaderReturns
  \/ \E path \in SearchPackagePaths : Visit(path)
  \/ LoaderFindsPackage
  \/ LoaderReturns
  \/ LoaderFetchesFiles
  \/ FilesFetched
  \/ FilesFail
  \/ OpenHome
  \/ HomeLoaderReturns
  \/ \E tag \in Tags : handleTagClick(tag)
  \/ \E tag \in Tags : toggleTag(tag)
  \/ \E value \in Queries : setTextQuery(value)
  \/ clearAllFilters

SearchSpec == SearchInit /\ [][SearchNext]_vars

----------------------------------------------------------------------------
(* Properties of the build process *)

Settled(c) == c.state # "pending"

InFlight == fetchPromise # Null /\ fetchPromise.state = "pending"

FetchFailed == fetchPromise # Null /\ fetchPromise.state = "rejected"

\* C1: within one build process at most one network request for the package
\* index is ever started, whatever calls are made and however they interleave
C1_AtMostOneRequest == requests <= 1

\* a call that found the index cached and one that did not, one request
C1_Witness ==
  /\ requests = 1
  /\ Len(calls) >= 2
  /\ \E i, j \in 1..Len(calls) :
       /\ calls[i].path = "new" /\ calls[i].state = "fulfilled"
       /\ calls[j].path = "cache" /\ calls[j].state = "fulfilled"

\* every settled call that entered while the fetch was in flight has the
\* outcome of the module's promise, and so has the call that started it
SameOutcomeAsFetch ==
  \A i \in 1..Len(calls) :
    LET c == calls[i]
    IN  (c.found \in {"none", "pending"} /\ Settled(c)) =>
          /\ fetchPromise # Null
          /\ fetchPromise.state = c.state
          /\ (c.state = "rejected" => c.result = [error |-> fetchPromise.reason])
          /\ (c.state = "fulfilled"
                /\ c.op \in {"fetchPackagesIndex", "getPackagesIndex"})
               => c.result = [value |-> fetchPromise.value]

\* C2: a call of fetchPackagesIndex made while an earlier call's fetch is in
\* flight starts no request: it is handed the module's pending promise, and
\* it settles with the same outcome (index or error) as the first caller
C2_InFlightCallShares ==
  [][ /\ \A o \in CallOps :
           (InFlight /\ Call(o)) =>
             /\ requests' = requests
             /\ fetchPromise' = fetchPromise
             /\ calls'[Len(calls')].awaits = [ref |-> "fetchPromise"]
      /\ SameOutcomeAsFetch' ]_vars

\* the first caller and one that joined in flight, both settled with the index
C2_Witness ==
  \E i, j \in 1..Len(calls) :
    /\ calls[i].op = "fetchPackagesIndex" /\ calls[i].found = "none"
    /\ calls[j].op = "fetchPackagesIndex" /\ calls[j].found = "pending"
    /\ calls[i].state = "fulfilled" /\ calls[j].state = "fulfilled"
    /\ calls[i].result = calls[j].result

\* the request answered with a status that is not OK, or with JSON that
\* fails the schema
BadStatusOrInvalid ==
  /\ fetchPc = "done"
  /\ response # Null
  /\ response # NetworkError
  /\ \/ ~response.ok
     \/ (response.body # NotJson /\ ~PackagesIndexSchema(response.body))

\* C3: after a non-OK response or a schema validation failure the fetch is
\* rejected, nothing is cached, and every operation on the service
\* (getPackagesIndex, getUniquePackageNames, getPackageByName, prerender)
\* settles with that rejection instead of a value
C3_FailurePropagates ==
  BadStatusOrInvalid =>
    /\ cachedPackagesIndex = Null
    /\ fetchPromise # Null
    /\ fetchPromise.state = "rejected"
    /\ \A i \in 1..Len(calls) :
         Settled(calls[i]) =>
           /\ calls[i].state = "rejected"
           /\ calls[i].result = [error |-> fetchPromise.reason]

\* a document with an invalid package: prerender and getPackageByName reject
C3_Witness ==
  /\ BadStatusOrInvalid
  /\ response.ok
  /\ \E i, j \in 1..Len(calls) :
       /\ calls[i].op = "prerender" /\ calls[i].state = "rejected"
       /\ calls[j].op = "getPackageByName" /\ calls[j].state = "rejected"

\* every settled call that entered after the fetch had failed is rejected
\* with the error of that one fetch
LaterCallsRejected ==
  \A i \in 1..Len(calls) :
    (calls[i].found = "rejected" /\ Settled(calls[i])) =>
      /\ calls[i].state = "rejected"
      /\ calls[i].result = [error |-> fetchPromise.reason]

\* C4: the fetch is never retried: once it has failed no step starts another
\* request or replaces the rejected promise, nothing is ever cached, and
\* every later call is rejected as well
C4_NoRetry ==
  [][ FetchFailed =>
        /\ requests' = requests
        /\ fetchPromise' = fetchPromise
        /\ cachedPackagesIndex' = Null
        /\ LaterCallsRejected' ]_vars

\* a call made after the fetch failed, rejected, still one request
C4_Witness ==
  /\ FetchFailed
  /\ requests = 1
  /\ \E i \in 1..Len(calls) :
       calls[i].found = "rejected" /\ calls[i].state = "rejected"

\* the served document is a JSON index of which some packages pass the
\* package schema and some do not
PartlyInvalid ==
  /\ fetchPc = "done"
  /\ response # Null
  /\ response # NetworkError
  /\ response.ok
  /\ response.body # NotJson
  /\ "last_update" \in DOMAIN response.body
  /\ \E i \in 1..Len(response.body.packages) :
       ~RawPackageSchema(response.body.packages[i])
  /\ \E i \in 1..Len(response.body.packages) :
       RawPackageSchema(response.body.packages[i])

\* the packages of the served document that pass the package schema and are
\* not the dummy package, as validated packages
ValidPackagesOf(body) ==
  LET valid == SelectSeq(body.packages,
                         LAMBDA raw : /\ RawPackageSchema(raw)
                                      /\ raw.name # DummyPackageName)
  IN  [i \in 1..Len(valid) |-> PackageSchemaOutput(valid[i])]

\* C5: when the fetched index contains some individually invalid packages,
\* getPackagesIndex still returns the index, holding the remaining valid
\* packages
C5_InvalidPackagesFilteredOut ==
  PartlyInvalid =>
    /\ fetchPromise.state = "fulfilled"
    /\ fetchPromise.value.packages = ValidPackagesOf(response.body)
    /\ \A i \in 1..Len(calls) :
         (calls[i].op = "getPackagesIndex" /\ Settled(calls[i])) =>
           /\ calls[i].state = "fulfilled"
           /\ calls[i].result.value.packages = ValidPackagesOf(response.body)

HasNoDummy(packages) ==
  \A k \in 1..Len(packages) : packages[k].name # DummyPackageName

\* how many of the first i packages are not the dummy package
NonDummyCount(packages, i) ==
  Cardinality({ k \in 1..i : packages[k].name # DummyPackageName })

\* index holds exactly the validated packages of body that are not the dummy
\* package, each at the place its rank among them gives it
KeepsOthersInOrder(body, index) ==
  LET out == PackagesIndexOutput(body).packages
  IN  /\ Len(index.packages) = NonDummyCount(out, Len(out))
      /\ \A k \in 1..Len(out) :
           out[k].name # DummyPackageName =>
             index.packages[NonDummyCount(out, k)] = out[k]

\* C6: no package named "dummy-package" is in the cached index or in an
\* index a call returns; it is not among the unique names, looking it up by
\* name gives null, no prerender path starts with it; all other validated
\* packages are kept in their original order
C6_NoDummyPackage ==
  /\ cachedPackagesIndex # Null =>
       /\ HasNoDummy(cachedPackagesIndex.packages)
       /\ KeepsOthersInOrder(response.body, cachedPackagesIndex)
  /\ (fetchPromise # Null /\ fetchPromise.state = "fulfilled") =>
       /\ HasNoDummy(fetchPromise.value.packages)
       /\ KeepsOthersInOrder(response.body, fetchPromise.value)
  /\ \A i \in 1..Len(calls) :
       LET c == calls[i]
       IN  c.state = "fulfilled" =>
             /\ c.op \in {"fetchPackagesIndex", "getPackagesIndex"} =>
                  /\ HasNoDummy(c.result.value.packages)
                  /\ KeepsOthersInOrder(response.body, c.result.value)
             /\ c.op = "getUniquePackageNames" =>
                  \A k \in 1..Len(c.result.value) :
                    c.result.value[k] # DummyPackageName
             /\ (c.op = "getPackageByName" /\ c.name = DummyPackageName) =>
                  c.result.value = Null
             /\ c.op = "prerender" =>
                  \A k \in 1..Len(c.result.value) :
                    Len(c.result.value[k]) >= 1 =>
                      c.result.value[k][1] # DummyPackageName

\* the document lists the dummy package before another one; the index is
\* cached and looking the dummy package up has returned null
C6_Witness ==
  /\ cachedPackagesIndex # Null
  /\ Len(response.body.packages) = 2
  /\ response.body.packages[1].name = DummyPackageName
  /\ Len(cachedPackagesIndex.packages) = 1
  /\ \E i \in 1..Len(calls) :
       /\ calls[i].op = "getPackageByName"
       /\ calls[i].name = DummyPackageName
       /\ calls[i].state = "fulfilled"

\* version a is not later than version b, comparing the three components
\* as numbers, the first one first
NumericallyAtMost(a, b) ==
  LET a1 == NumericValue(a[1])  a2 == NumericValue(a[2])  a3 == NumericValue(a[3])
      b1 == NumericValue(b[1])  b2 == NumericValue(b[2])  b3 == NumericValue(b[3])
  IN  \/ a1 < b1
      \/ a1 = b1 /\ a2 < b2
      \/ a1 = b1 /\ a2 = b2 /\ a3 <= b3

\* the positions of the index entries named name
EntriesNamed(index, name) ==
  { k \in 1..Len(index.packages) : index.packages[k].name = name }

\* C8: getPackageByName(name) returns null exactly when the index has no
\* package of that name; otherwise it returns an entry of that name whose
\* version is numerically the greatest among the entries of that name
C8_LatestByNumericVersion ==
  \A i \in 1..Len(calls) :
    LET c == calls[i]
    IN  (c.op = "getPackageByName" /\ c.state = "fulfilled") =>
          LET entries == EntriesNamed(cachedPackagesIndex, c.name)
              got == c.result.value
          IN  /\ (got = Null) <=> (entries = {})
              /\ entries # {} =>
                   /\ got.name = c.name
                   /\ \E k \in entries : cachedPackagesIndex.packages[k] = got
                   /\ \A k \in entries :
                        NumericallyAtMost(
                          cachedPackagesIndex.packages[k].version, got.version)

\* 1.9.0 and 1.10.0 of one package are in the index and 1.10.0 is returned
C8_Witness ==
  /\ cachedPackagesIndex # Null
  /\ Len(cachedPackagesIndex.packages) = 2
  /\ cachedPackagesIndex.packages[1].name = "pkg-a"
  /\ cachedPackagesIndex.packages[2].name = "pkg-a"
  /\ cachedPackagesIndex.packages[1].version = <<<<1>>, <<1, 0>>, <<0>>>>
  /\ cachedPackagesIndex.packages[2].version = <<<<1>>, <<9>>, <<0>>>>
  /\ \E i \in 1..Len(calls) :
       /\ calls[i].op = "getPackageByName"
       /\ calls[i].name = "pkg-a"
       /\ calls[i].state = "fulfilled"
       /\ calls[i].result.value.version = <<<<1>>, <<1, 0>>, <<0>>>>

----------------------------------------------------------------------------
(* Properties of the built site *)

\* the call is a call of prerender() that has returned its path list
PrerenderReturned(c) == c.op = "prerender" /\ c.state = "fulfilled"

\* path is one of the paths of the list
HasPath(paths, path) == \E k \in 1..Len(paths) : paths[k] = path

\* C7: the prerender path list contains "/", the path /<name> of every
\* package name of the index and the path /<name>/v/<version> of every entry
C7_PrerenderCoversAllPackages ==
  \A i \in 1..Len(calls) :
    PrerenderReturned(calls[i]) =>
      LET paths == calls[i].result.value
      IN  /\ HasPath(paths, << >>)
          /\ \A k \in 1..Len(cachedPackagesIndex.packages) :
               LET pkg == cachedPackagesIndex.packages[k]
               IN  /\ HasPath(paths, <<pkg.name>>)
                   /\ HasPath(paths, <<pkg.name, "v", pkg.version>>)

\* the route parameters of the page the browser is at
Params == RouteParams(location.pathname)

\* the browser is at a path of the package route
OnPackagePage == location # Null /\ IsPackagePath(location.pathname)

\* C9: the package route loader answers 404 exactly when the requested
\* package is absent: "Package not found" without a version when no entry
\* has the name, "Package version not found" with a version when no entry
\* has the name and the version; otherwise it returns the package with the
\* requested name (and version, when given); the later version of the
\* loader may reject with the error of fetchPackageFiles instead
C9_NotFoundExactlyWhenAbsent ==
  OnPackagePage =>
    LET name == Params.packageName
        version == Params.version
        named == EntriesNamed(cachedPackagesIndex, name)
        exact == { k \in named :
                     cachedPackagesIndex.packages[k].version = version }
    IN  IF version = NoVersion
        THEN IF named = {}
             THEN loaderData = NotFound("Package not found")
             ELSE \/ loaderData = FilesError
                  \/ /\ IsData(loaderData)
                     /\ loaderData.package.name = name
        ELSE IF exact = {}
             THEN loaderData = NotFound("Package version not found")
             ELSE \/ loaderData = FilesError
                  \/ /\ IsData(loaderData)
                     /\ loaderData.package.name = name
                     /\ loaderData.package.version = version

\* the package is in the index, the requested version of it is not: 404
C9_Witness ==
  /\ OnPackagePage
  /\ Params.version = AbsentVersion
  /\ EntriesNamed(cachedPackagesIndex, Params.packageName) # {}
  /\ loaderData = NotFound("Package version not found")

\* C10: isLatest holds exactly when the route has no version parameter or
\* the parameter is the first entry of the version list, which is the
\* highest version of the package; the install command is
\* "espanso install <name>" then and
\* "espanso install <name> --version <version>" otherwise
C10_VersionFlagOmittedForLatest ==
  (OnPackagePage /\ IsData(loaderData)) =>
    LET name == Params.packageName
        version == Params.version
        first == loaderData.versions[1]
        latest == version = NoVersion \/ version = first
    IN  /\ \A k \in EntriesNamed(cachedPackagesIndex, name) :
             NumericallyAtMost(cachedPackagesIndex.packages[k].version, first)
        /\ loaderData.isLatest = latest
        /\ installBox =
             [command |-> IF latest
                          THEN <<"espanso", "install", name>>
                          ELSE <<"espanso", "install", name,
                                 "--version", version>>]

\* the versioned page of the highest of two versions: no version flag
C10_Witness ==
  /\ OnPackagePage
  /\ IsData(loaderData)
  /\ location.pathname = <<"pkg-a", "v", <<<<1>>, <<1, 0>>, <<0>>>>>>
  /\ Len(loaderData.versions) = 2
  /\ installBox = [command |-> <<"espanso", "install", "pkg-a">>]

----------------------------------------------------------------------------
(* Properties of the search service and the search route *)

\* the same letter in either case, or the same character
SameLetter(c, d) ==
  c = d \/ {c, d} = {"a", "A"} \/ {c, d} = {"b", "B"}

\* two strings equal when case is ignored
EqualIgnoringCase(a, b) ==
  Len(a) = Len(b) /\ \A i \in 1..Len(a) : SameLetter(a[i], b[i])

\* the package has at least one tag equal, ignoring case, to one of tags
HasOneOf(pkg, tags) ==
  \E k \in 1..Len(pkg.tags), m \in 1..Len(tags) :
    EqualIgnoringCase(pkg.tags[k], tags[m])

\* result holds exactly the elements of list at the positions in kept, in
\* the order of the list
HoldsExactly(result, list, kept) ==
  /\ Len(result) = Cardinality(kept)
  /\ \A i \in kept : result[Cardinality({j \in kept : j <= i})] = list[i]

\* the tags selected on the search page shown
selectedTags == selectedTagsOf(searchParams)

\* C11: filterByTags keeps exactly the packages that have at least one tag
\* equal, ignoring case, to one of the given tags, in their original order;
\* for an empty tag list it returns the package list unchanged
C11_FilterByTagsIsCaseInsensitiveOr ==
  OnSearchPage =>
    LET packages == loaderData.packages
        result   == filterByTags(packages, selectedTags)
    IN  IF Len(selectedTags) = 0 THEN result = packages
        ELSE HoldsExactly(result, packages,
                          {i \in 1..Len(packages) :
                             HasOneOf(packages[i], selectedTags)})

\* two tags are selected; one package is kept for a tag that differs in
\* case from one of them, another package is dropped
C11_Witness ==
  /\ OnSearchPage
  /\ Len(selectedTags) = 2
  /\ \E i, j \in 1..Len(loaderData.packages) :
       /\ HasOneOf(loaderData.packages[i], selectedTags)
       /\ ~includes(selectedTags, loaderData.packages[i].tags[1])
       /\ Len(loaderData.packages[i].tags) = 1
       /\ ~HasOneOf(loaderData.packages[j], selectedTags)
       /\ Len(filterByTags(loaderData.packages, selectedTags))
            < Len(loaderData.packages)

\* a text made of whitespace only, the empty text included
IsBlank(text) == \A i \in 1..Len(text) : text[i] = " "

\* the positions of list whose package passes the tag filter
PassingTags(list, tags) ==
  {i \in 1..Len(list) : Len(tags) = 0 \/ HasOneOf(list[i], tags)}

\* C12: the packages shown are exactly the packages of textSearch that also
\* pass the tag filter, in the text search's order; a blank text query
\* imposes no text filter, an empty tag list no tag filter, and with
\* neither the full package list is shown unchanged
C12_ApplyFiltersIsTextThenTags ==
  OnSearchPage =>
    LET packages == loaderData.packages
        found    == textSearch(packages, textQuery.value)
        result   == applyFilters(packages, textQuery.value, selectedTags)
    IN  /\ HoldsExactly(result, found, PassingTags(found, selectedTags))
        /\ IsBlank(textQuery.value) =>
             HoldsExactly(result, packages, PassingTags(packages, selectedTags))
        /\ Len(selectedTags) = 0 => result = found
        /\ IsBlank(textQuery.value) /\ Len(selectedTags) = 0 => result = packages
        /\ searchView.filteredPackages = result

\* both filters are active: Fuse answers with the packages in another
\* order than the index has them, and the tag filter drops one of them
C12_Witness ==
  /\ OnSearchPage
  /\ ~IsBlank(textQuery.value)
  /\ Len(selectedTags) > 0
  /\ Len(fuseHits) = 2
  /\ fuseHits[1] > fuseHits[2]
  /\ Len(searchView.filteredPackages) = 1

\* the package has the tag, case ignored
HasTag(pkg, tag) ==
  \E k \in 1..Len(pkg.tags) : EqualIgnoringCase(pkg.tags[k], tag)

\* C13: countTags has one entry per distinct tag (case ignored), the count
\* of an entry is the number of packages that have its tag, and the entries
\* are ordered by count in descending order
C13_CountTagsCountsPackages ==
  OnSearchPage =>
    LET packages == loaderData.packages
        counts   == countTags(packages)
    IN  /\ \A i, j \in 1..Len(counts) :
             i # j => ~EqualIgnoringCase(counts[i].tag, counts[j].tag)
        /\ \A p \in 1..Len(packages) : \A k \in 1..Len(packages[p].tags) :
             \E i \in 1..Len(counts) :
               EqualIgnoringCase(counts[i].tag, packages[p].tags[k])
        /\ \A i \in 1..Len(counts) :
             counts[i].count =
               Cardinality({p \in 1..Len(packages) : HasTag(packages[p], counts[i].tag)})
        /\ \A i, j \in 1..Len(counts) :
             i < j => counts[i].count >= counts[j].count

\* the positions of value that hold a tag character or a comma between two
\* tags: commas at the start, at the end or after another comma are left out
BetweenTags(value) ==
  {i \in 1..Len(value) :
     \/ value[i] # ","
     \/ /\ i > 1 /\ value[i - 1] # ","
        /\ \E j \in (i + 1)..Len(value) : value[j] # ","}

\* C14: the selected tags are the non-empty comma-separated segments of the
\* URL's t parameter, none when t is missing or empty, and the packages
\* shown are a function of the t parameter, the text query and the loaded
\* packages alone, whichever way the URL was reached
C14_UrlTagsDetermineResults ==
  OnSearchPage =>
    /\ searchParams.t = Null => selectedTags = << >>
    /\ searchParams.t # Null =>
         /\ Len(searchParams.t.value) = 0 => selectedTags = << >>
         /\ \A i \in 1..Len(selectedTags) :
              /\ Len(selectedTags[i]) > 0
              /\ \A k \in 1..Len(selectedTags[i]) : selectedTags[i][k] # ","
         /\ HoldsExactly(join(selectedTags), searchParams.t.value,
                         BetweenTags(searchParams.t.value))
    /\ searchView.activeTags = selectedTags
    /\ searchView.filteredPackages =
         applyFilters(loaderData.packages, textQuery.value, selectedTags)
    /\ searchView.filteredPackages =
         SearchRender(cachedPackagesIndex.packages,
                      [t |-> searchParams.t, other |-> Null],
                      textQuery.value).filteredPackages

\* the URL's t parameter has empty segments and two tags; the packages
\* shown are fewer than the packages loaded
C14_Witness ==
  /\ OnSearchPage
  /\ searchParams.t # Null
  /\ Len(split(searchParams.t.value)) > Len(selectedTags)
  /\ Len(selectedTags) = 2
  /\ Len(searchView.filteredPackages) < Len(loaderData.packages)
  /\ Len(searchView.filteredPackages) > 0

\* the place of a letter in the alphabet, whichever its case
AlphabetPlace(c) ==
  IF c \in {"a", "A"} THEN 1 ELSE IF c \in {"b", "B"} THEN 2 ELSE 0

\* the tags stand in alphabetical order
Alphabetical(tags) ==
  \A i, j \in 1..Len(tags) :
    i < j => CompareSeq([k \in 1..Len(tags[i]) |-> AlphabetPlace(tags[i][k])],
                        [k \in 1..Len(tags[j]) |-> AlphabetPlace(tags[j][k])]) <= 0

\* some tag checkbox is toggled in this step
SomeToggle == \E tag \in Tags : toggleTag(tag)

\* C15: after any toggleTag the URL's t parameter is the comma-separated
\* list of the selected tags in alphabetical order, and it is removed from
\* the URL when no tag is left selected: the query toggleTag hands to
\* setSearchParams is of that form, and it is the query of the URL when the
\* navigation ends
C15_ToggleWritesAlphabeticalTags ==
  [][/\ SomeToggle =>
          LET after == selectedTagsOf(navigation'.query)
          IN  /\ navigation'.pathname = SearchPath
              /\ IF Len(after) = 0 THEN navigation'.query.t = Null
                  ELSE /\ navigation'.query.t # Null
                       /\ navigation'.query.t.value = join(after)
                       /\ Alphabetical(after)
     /\ SearchLoaderReturns => searchParams' = navigation.query]_vars

\* the navigation a click on the badge of tag starts, its loader called
BadgeNavigation(tag) ==
  Loading(SearchPath, [t |-> [value |-> tag], other |-> Null], FALSE)

\* C16: clicking a tag badge on a package page leads to the search page
\* with that tag preselected: the tag's checkbox is checked and the packages
\* shown are the packages carrying the tag
C16_TagBadgePreselectsTag ==
  [][\A tag \in Tags :
       /\ handleTagClick(tag) => navigation' = BadgeNavigation(tag)
       /\ ( /\ navigation = BadgeNavigation(tag)
            /\ IsData(loaderData)
            /\ includes(loaderData.package.tags, tag)
            /\ SearchLoaderReturns ) =>
            /\ location'.pathname = <<"search">>
            /\ \E i \in 1..Len(searchView'.tagCheckboxes) :
                 /\ EqualIgnoringCase(searchView'.tagCheckboxes[i].tag, tag)
                 /\ searchView'.tagCheckboxes[i].checked
            /\ HoldsExactly(searchView'.filteredPackages, loaderData'.packages,
                            {p \in 1..Len(loaderData'.packages) :
                               HasTag(loaderData'.packages[p], tag)})]_vars

\* the navigation clearAllFilters starts, its loader called
ClearingNavigation == Loading(SearchPath, [t |-> Null, other |-> Null], TRUE)

\* C17: clearAllFilters resets the search page from any state: the text
\* query is empty with the render after the click and, when the navigation
\* the click started has ended, no tag is selected and no checkbox
\* checked, the URL carries no search parameter and, the text query being
\* still empty, no filter is reported active and the packages shown are
\* the full package list
C17_ClearAllFiltersResets ==
  [][/\ clearAllFilters =>
          /\ textQuery' = [value |-> << >>]
          /\ navigation' = ClearingNavigation
     /\ (navigation = ClearingNavigation /\ SearchLoaderReturns) =>
          /\ textQuery' = textQuery
          /\ selectedTagsOf(searchParams') = << >>
          /\ searchParams'.t = Null
          /\ searchParams'.other = Null
          /\ \A i \in 1..Len(searchView'.tagCheckboxes) :
               ~searchView'.tagCheckboxes[i].checked
          /\ textQuery.value = << >> =>
               /\ ~searchView'.hasActiveFilters
               /\ searchView'.filteredPackages = cachedPackagesIndex.packages]_vars

\* the button can be pressed while both filters are active, a checkbox is
\* checked, the URL carries another parameter besides t and some package is
\* filtered out
C17_Witness ==
  /\ OnSearchPage
  /\ searchView.hasActiveFilters
  /\ ~IsBlank(textQuery.value)
  /\ Len(selectedTags) > 0
  /\ searchParams.other # Null
  /\ Len(searchView.filteredPackages) < Len(loaderData.packages)
  /\ ENABLED clearAllFilters

\* C18: the two filters are stored independently: a change of the text
\* query changes neither the URL nor the selected tags and starts no
\* navigation, and toggling a tag leaves the text query unchanged, at the
\* click and when the navigation that changes the URL ends
C18_FiltersStoredIndependently ==
  [][/\ \A value \in Queries : setTextQuery(value) =>
          /\ location' = location
          /\ searchParams' = searchParams
          /\ selectedTagsOf(searchParams') = selectedTags
          /\ searchView'.activeTags = searchView.activeTags
          /\ textQuery' = [value |-> value]
          /\ navigation' = navigation
     /\ \A tag \in Tags : toggleTag(tag) =>
          /\ textQuery' = textQuery
          /\ location' = location
          /\ searchParams' = searchParams
          /\ navigation'.query # searchParams
     /\ (navigation # Null /\ navigation.mounted /\ SearchLoaderReturns) =>
          /\ textQuery' = textQuery
          /\ searchParams' = navigation.query]_vars

\* a text has been typed and a checkbox toggled on the same page: the URL
\* lists tags in an order no opened URL has, beside a non-blank text query
C18_Witness ==
  /\ OnSearchPage
  /\ textQuery = [value |-> <<"e">>]
  /\ searchParams.t = [value |-> <<"a", ",", "b">>]
  /\ searchView.activeTags = <<<<"a">>, <<"b">>>>

----------------------------------------------------------------------------
(* Properties of the version selector and the version accessors *)

\* C19: choosing a version in the selector navigates to /<name> when the
\* version is the latest one, the first entry of the version list, and to
\* /<name>/v/<version> when it is any other version
C19_SelectorNavigatesByVersion ==
  [][\A version \in Versions : SelectVersion(version) =>
       LET name   == loaderData.package.name
           latest == loaderData.versions[1]
       IN  /\ version = latest => navigation'.pathname = <<name>>
           /\ version # latest => navigation'.pathname = <<name, "v", version>>]_vars

\* a page is shown whose selector lists two versions and whose package is
\* not the latest one: both kinds of choice can be made
C19_Witness ==
  /\ loaderData # Null
  /\ IsData(loaderData)
  /\ Len(loaderData.versions) = 2
  /\ ~loaderData.isLatest
  /\ ENABLED SelectVersion(loaderData.versions[1])
  /\ ENABLED SelectVersion(loaderData.versions[2])

\* the versions a lookup may ask for: the served ones and one that is absent
LookupVersions == Versions \cup {AbsentVersion}

\* C20: getVersionsForPackage returns the versions of the entries with the
\* name, in descending numeric order and each once;
\* getPackageByNameAndVersion returns an entry with that name and version,
\* or null when there is none; getAllPackageVersionPaths returns one path
\* /<name>/v/<version> per entry of the index
C20_VersionAccessors ==
  cachedPackagesIndex # Null =>
    LET index == cachedPackagesIndex
        paths == getAllPackageVersionPaths(index)
    IN  /\ \A name \in Names :
             LET versions == getVersionsForPackage(index, name)
             IN  /\ {versions[i] : i \in 1..Len(versions)} =
                      {index.packages[k].version : k \in EntriesNamed(index, name)}
                 /\ \A i, j \in 1..Len(versions) :
                      i < j => /\ versions[i] # versions[j]
                               /\ NumericallyAtMost(versions[j], versions[i])
        /\ \A name \in Names, version \in LookupVersions :
             LET got == getPackageByNameAndVersion(index, name, version)
                 has == {k \in EntriesNamed(index, name) :
                           index.packages[k].version = version}
             IN  IF has = {} THEN got = Null
                 ELSE /\ got # Null
                      /\ got.name = name
                      /\ got.version = version
                      /\ \E k \in has : index.packages[k] = got
        /\ Len(paths) = Len(index.packages)
        /\ \A k \in 1..Len(paths) :
             paths[k] = <<index.packages[k].name, "v", index.packages[k].version>>

\* the index holds three entries of one package, 1.9.0 twice with 1.10.0
\* between them: two versions are listed, 1.10.0 first
C20_Witness ==
  /\ cachedPackagesIndex # Null
  /\ Len(cachedPackagesIndex.packages) >= 3
  /\ Cardinality(EntriesNamed(cachedPackagesIndex, "pkg-a")) = 3
  /\ cachedPackagesIndex.packages[1].version = cachedPackagesIndex.packages[3].version
  /\ cachedPackagesIndex.packages[1].version # cachedPackagesIndex.packages[2].version
  /\ Len(getVersionsForPackage(cachedPackagesIndex, "pkg-a")) = 2
  /\ getVersionsForPackage(cachedPackagesIndex, "pkg-a")[1]
       = cachedPackagesIndex.packages[2].version
  /\ getPackageByNameAndVersion(cachedPackagesIndex, "pkg-a", AbsentVersion) = Null
  /\ \E i, j \in 1..Len(calls) :
       /\ calls[i].op = "getVersionsForPackage"
       /\ calls[i].state = "fulfilled"
       /\ Len(calls[i].result.value) = 2
       /\ calls[j].op = "getAllPackageVersionPaths"
       /\ calls[j].state = "fulfilled"

----------------------------------------------------------------------------
(* Properties of the cache, of termination and of the accessors *)

\* the calls that hand the index itself to their caller
ReturnsIndex(c) == c.op \in {"fetchPackagesIndex", "getPackagesIndex"}

\* a cached index comes with a fulfilled promise of that index, and every
\* call that resolved with an index resolved with the cached one
CacheIsBacked ==
  /\ cachedPackagesIndex # Null =>
       /\ fetchPromise # Null
       /\ fetchPromise.state = "fulfilled"
       /\ fetchPromise.value = cachedPackagesIndex
  /\ \A i \in 1..Len(calls) :
       ReturnsIndex(calls[i]) /\ calls[i].state = "fulfilled" =>
         /\ cachedPackagesIndex # Null
         /\ calls[i].result = [value |-> cachedPackagesIndex]

\* C21: the index cache is write-once: a cached index implies a fulfilled
\* fetchPromise, a cached index is never replaced or cleared, and every call
\* that resolves returns that same index
C21_CacheIsWriteOnce ==
  /\ []CacheIsBacked
  /\ [][cachedPackagesIndex # Null =>
          cachedPackagesIndex' = cachedPackagesIndex]_vars

\* the index is cached with a package in it; the call that started the
\* fetch and a call that arrived after it finished have both resolved
C21_Witness ==
  /\ cachedPackagesIndex # Null
  /\ Len(cachedPackagesIndex.packages) > 0
  /\ Len(calls) = 2
  /\ calls[1].path = "new"
  /\ calls[2].path = "cache"
  /\ \A i \in 1..2 : ReturnsIndex(calls[i]) /\ calls[i].state = "fulfilled"

\* the answers of the network in the specification of termination: every
\* kind of failure, and the documents of at most one package
LiveResponses ==
  {NetworkError}
    \cup { [ok |-> FALSE, status |-> 404, body |-> NotJson] }
    \cup { [ok |-> TRUE, status |-> 200, body |-> b] :
             b \in {NotJson} \cup Documents(1) }

LiveFetchResponds == \E r \in LiveResponses : FetchRespondsWith(r)

LiveNext ==
  \/ \E o \in CallOps : Call(o)
  \/ \E i \in 1..Len(calls) : Resume(i)
  \/ LiveFetchResponds
  \/ FetchCompletes

\* the build process when the network request completes and the event loop
\* runs every continuation whose promise has settled
LiveSpec ==
  /\ Init
  /\ [][LiveNext]_vars
  /\ WF_vars(LiveFetchResponds)
  /\ WF_vars(FetchCompletes)
  /\ \A i \in 1..MaxCalls : WF_vars(i <= Len(calls) /\ Resume(i))

\* C22: provided the network request eventually completes, every call
\* eventually settles, whether it started the fetch, joined it in flight or
\* arrived after it finished
C22_EveryCallSettles ==
  \A i \in 1..MaxCalls :
    (Len(calls) >= i) ~> (Len(calls) >= i /\ Settled(calls[i]))

\* a prerender call that joined the fetch in flight has passed both of its
\* awaits and settled, as has the call that started the fetch
C22_Witness ==
  /\ Len(calls) = 2
  /\ calls[1].found = "none"
  /\ calls[2].op = "prerender"
  /\ calls[2].found # "none"
  /\ calls[2].pc = "versionPaths"
  /\ Settled(calls[1])
  /\ Settled(calls[2])

\* C23: the read accessors do not modify the cached index: after any
\* sequence of calls of getUniquePackageNames, getPackageByName,
\* getPackageByNameAndVersion, getVersionsForPackage and
\* getAllPackageVersionPaths, interleaved in any way, the cached list has the
\* entries it was cached with, in the same order
C23_AccessorsLeaveIndexAlone ==
  /\ [](cachedPackagesIndex.packages = ValidPackagesOf(response.body))
  /\ [][cachedPackagesIndex' = cachedPackagesIndex]_vars

\* getPackageByName has returned the second of two entries of an index
\* whose entries are not in descending order of version, and another
\* accessor has returned
C23_Witness ==
  /\ Len(calls) = 2
  /\ \A i \in 1..2 : calls[i].state = "fulfilled"
  /\ \E i \in 1..2 :
       /\ calls[i].op = "getPackageByName"
       /\ calls[i].result.value # Null
       /\ calls[i].result.value # cachedPackagesIndex.packages[1]
       /\ cachedPackagesIndex.packages[1].name = calls[i].name
  /\ \E i \in 1..2 : calls[i].op \in {"prerender", "getVersionsForPackage",
                                        "getPackageByNameAndVersion"}

\* the place of the first entry of packages that has the name
FirstPlace(packages, name) ==
  CHOOSE i \in 1..Len(packages) :
    /\ packages[i].name = name
    /\ \A k \in 1..(i - 1) : packages[k].name # name

\* C24: getUniquePackageNames returns each package name of the index exactly
\* once: no name twice, every name of the index and no other, in order of
\* first occurrence in the index
C24_UniqueNamesOnceInOrder ==
  LET packages == cachedPackagesIndex.packages
      names    == getUniquePackageNames(cachedPackagesIndex)
  IN  /\ \A a, b \in 1..Len(names) : a # b => names[a] # names[b]
      /\ { names[a] : a \in 1..Len(names) }
           = { packages[i].name : i \in 1..Len(packages) }
      /\ \A a, b \in 1..Len(names) :
           a < b => FirstPlace(packages, names[a]) < FirstPlace(packages, names[b])
      /\ \A i \in 1..Len(calls) :
           (calls[i].op = "getUniquePackageNames" /\ calls[i].state = "fulfilled")
             => calls[i].result.value = names

\* the names were returned for an index in which a name comes back after
\* another name
C24_Witness ==
  /\ \E c \in 1..Len(calls) :
       /\ calls[c].op = "getUniquePackageNames"
       /\ calls[c].state = "fulfilled"
  /\ \E i, j, k \in 1..Len(cachedPackagesIndex.packages) :
       /\ i < j
       /\ j < k
       /\ cachedPackagesIndex.packages[i].name = cachedPackagesIndex.packages[k].name
       /\ cachedPackagesIndex.packages[i].name # cachedPackagesIndex.packages[j].name
  /\ Len(getUniquePackageNames(cachedPackagesIndex)) = 2

\* the page the version selector leads to when version is chosen on the
\* page showing data
PageChosen(data, version) ==
  loader(cachedPackagesIndex, RouteParams(handleVersionChange(data, version)))

\* C25: the latest-version page and the version selector agree: for every
\* package name of the index the version of getPackageByName(name) is the
\* first entry of getVersionsForPackage(name), and for every version the
\* selector of the page shown offers, the route handleVersionChange
\* navigates to loads without a 404 and shows the package in that version
C25_LatestPageAgreesWithSelector ==
  /\ \A i \in 1..Len(cachedPackagesIndex.packages) :
       LET name == cachedPackagesIndex.packages[i].name
       IN  /\ getPackageByName(cachedPackagesIndex, name) # Null
           /\ getPackageByName(cachedPackagesIndex, name).version
                = getVersionsForPackage(cachedPackagesIndex, name)[1]
  /\ (loaderData # Null /\ IsData(loaderData)) =>
       \A k \in 1..Len(loaderData.versions) :
         LET page == PageChosen(loaderData, loaderData.versions[k])
         IN  /\ IsData(page)
             /\ page.package.name = loaderData.package.name
             /\ page.package.version = loaderData.versions[k]

\* an older version's page is shown for a package whose newest version is
\* not its first entry in the index, and the selector offers two versions
C25_Witness ==
  /\ loaderData # Null
  /\ IsData(loaderData)
  /\ Len(location.pathname) = 3
  /\ Len(loaderData.versions) = 2
  /\ loaderData.package.version = loaderData.versions[2]
  /\ LET first == SelectSeq(cachedPackagesIndex.packages,
                            LAMBDA p : p.name = loaderData.package.name)[1]
     IN  first.version # loaderData.versions[1]

\* C26: the prerender path list has no duplicates: the paths of the fixed
\* routes "/" and "/search", of the package names and of the name/version
\* pairs are pairwise distinct, for any index that passes validation
C26_PrerenderPathsDistinct ==
  \A i \in 1..Len(calls) :
    PrerenderReturned(calls[i]) =>
      LET paths == calls[i].result.value
      IN  \A a, b \in 1..Len(paths) : a # b => paths[a] # paths[b]

====
